---------------------------- MODULE Spec2Model ----------------------------
(***************************************************************************)
(* Pi Coin SDK (pi_coin): the issuance ledger (PiCoin), the ecosystem      *)
(* monitor (EcosystemMonitor), the origin verification gate                *)
(* (verify_origin, SourceVerifier), the hash engine's signing path         *)
(* (HashEngine) and the transaction state machine (Transaction,            *)
(* process_batch_transactions).                                            *)
(*                                                                         *)
(* Amounts are counted in units of 10^9 PI, so that TOTAL_SUPPLY           *)
(* (100_000_000_000 PI) is 100 units.  The amounts drawn are multiples of  *)
(* 20 units, for which the 5% mitigation (amount_pi *= 0.95) is exact.     *)
(* An f-string is the concatenation of its parts and its "-" separators.   *)
(***************************************************************************)
EXTENDS Integers, Sequences, FiniteSets, TLC

\* ------------------------------------------------------------------ bounds
\* how far below zero the model follows the total (negative amounts lower it)
MaxDebt == 40
\* largest monitor sample the model follows
MaxData == 102
\* number of keypairs generated in a run (the process keypair included)
MaxKeys == 6
\* the longest list handed to batch_verify
MaxBatch == 2
\* process() calls made on one transaction
MaxCalls == 2

\* ------------------------------------------------------- program constants
TOTAL_SUPPLY == 100
MIN_SAMPLES == 100
MIN_TRAINING == 10
PI_DIGITS == "3.141592653589793"
HASH_SPLIT == 550
\* pi_math.pi_for_hash(50), a fixed string of digits
PI_ENTROPY == "pi_for_hash(50)"
ALLOWED_SOURCES == {"mining", "rewards", "p2p"}
REJECTED_SOURCES == {"exchange", "unknown", "illicit"}
\* the keypair generated when the package is imported
PROCESS_KEY == 1

\* ------------------------------------------------------------------ inputs
RECURSIVE Repeat(_, _)
Repeat(str, n) == IF n = 0 THEN "" ELSE str \o Repeat(str, n - 1)

Sources == {"mining", "p2p", "exchange", "bank"}
Amounts == {-20, 40, 60, 120}
RandInts == {7}
\* what the concurrent callers mint
ThreadAmounts == {40, 60}
ThreadSources == {"mining", "exchange"}
\* the amounts minted where the claim is about the coin, not the total
CoinAmounts == {40, 60}
TrainSizes == {50, 51}
\* len(transactions) of monitor.train where the monitor is asked on its own
MonitorSizes == {1, 50}
\* len(data) of SourceVerifier.train
VerifierSizes == {1, 4, 10}
\* the arguments of verify_origin
\* what Transaction._generate_tx_id returns and process() passes as the coin
\* id: a cryptography Hash object, not a str (here its repr)
TX_ID_OBJECT == "<cryptography.hazmat.primitives.hashes.Hash object>"
CoinIds == {"id1", "test_id", TX_ID_OBJECT}
VerifyAmounts == {1, 10}
Freqs == {1, 5}
\* the coins of a batch: those of test_batch_verify, which carry no amount
\* and no frequency, and one that does
BatchCoins ==
    {[source |-> "mining", id |-> "id1"],
     [source |-> "exchange", id |-> "id2"],
     [source |-> "p2p", id |-> "test_id", amount |-> 10, freq |-> 5]}
Batches == UNION {[1..n -> BatchCoins] : n \in 0..MaxBatch}
TxAmounts == {20, 40}
\* what the call of verify_origin can end with
GateAnswers == {"True", "False", "TypeError"}
TxSources == {"p2p", "exchange"}
\* the lists handed to process_batch_transactions
TxBatches == {<<>>, <<1>>, <<1, 2>>, <<2, 1>>}
\* the strings the hash engine signs; the last is 560 characters long
HashData == {"test data", "Pi Coin transaction data", "", Repeat("pi coin ", 70)}
\* values assigned to the fields of a coin after it was minted
OtherIds == {"00ff"}
OtherAmounts == {-20, 57}
OtherSources == {"p2p", "exchange"}

VARIABLES
    global_supply,  \* PiCoin._global_supply
    monitor_data,   \* len(monitor.data)
    monitor_fit,    \* size of the sample monitor.model was last fitted on, 0 = never fitted
    is_trained,     \* verifier.is_trained
    key_counter,    \* number of RSA keypairs generated so far
    coin,           \* the PiCoin object the caller holds (NoCoin before the first mint)
    pc,             \* per thread: position inside PiCoin.__init__
    local,          \* per thread: the locals of its PiCoin.__init__ call
    tx,             \* the Transaction objects: amount_pi, source, status, consensus_votes
    task,           \* per transaction: position and locals of its process() call
    batch,          \* the process_batch_transactions call: its input and what it ended with
    last            \* the last call made and what it returned or raised

vars == <<global_supply, monitor_data, monitor_fit, is_trained, key_counter,
          coin, pc, local, tx, task, batch, last>>

\* what no call outside transaction.py touches
txvars == <<tx, task, batch>>

NoCoin == [coin_id |-> "none"]

\* the transactions a caller constructs
TxIds == {1, 2}
NoTx == [status |-> "unconstructed"]

\* process_batch_transactions not called
NoBatch == [state |-> "none", txs |-> <<>>, results |-> <<>>, error |-> "none"]

\* no process() call made yet: the locals of _simulate_consensus (idx, votes),
\* the validators whose delay has begun, and what this call has done so far
IdleTask ==
    [pc |-> "idle", calls |-> 0, ret |-> "none", gate |-> "none",
     idx |-> 0, votes |-> <<>>, started |-> {}, decided |-> "none",
     writes |-> 0, observed |-> FALSE, submits |-> 0, connected |-> "none"]

\* ------------------------------------------------------ strings and hashes
\* str() of a number
StrNum(x) == ToString(x)

\* f"{a}-{b}-{c}"
Fmt3(a, b, c) == a \o "-" \o b \o "-" \o c

\* pi_coin.pi_based_hash: the hex digest of SHA3-512 over data + pi digits;
\* the digest is written as its preimage, so that no two inputs collide
pi_based_hash(data) == "sha3_512(" \o data \o PI_DIGITS \o ")"

\* ------------------------------------------------------------- signatures
\* private_key.sign(message, PSS, SHA256): only the signing key and the
\* message decide whether a signature verifies
Sign(key, message) == [key |-> key, message |-> message]

\* public_key.verify(signature, message, PSS, SHA256) does not raise
Verifies(key, signature, message) ==
    signature.key = key /\ signature.message = message

\* a detector that asks its model whatever the size of the sample
detect_anomaly_nothreshold(n, fit) ==
    IF fit = 0 THEN {"NotFittedError"} ELSE {"normal", "anomaly"}

\* ---------------------------------------------------------------- monitor
\* EcosystemMonitor.detect_anomaly: what a call can do in this state
detect_anomaly(n, fit) ==
    IF n < MIN_SAMPLES THEN {"normal"}
    ELSE IF fit = 0 THEN {"NotFittedError"}
    ELSE {"normal", "anomaly"}

\* EcosystemMonitor.train(transactions), len(transactions) = k
MonitorTrain(k) ==
    /\ monitor_data + k <= MaxData
    /\ monitor_data' = monitor_data + k
    /\ monitor_fit' = IF monitor_data + k > MIN_SAMPLES
                      THEN monitor_data + k ELSE monitor_fit
    /\ last' = [op |-> "monitor.train", k |-> k]
    /\ UNCHANGED txvars
    /\ UNCHANGED <<global_supply, is_trained, key_counter, coin, pc, local>>

\* monitor.detect_anomaly(transaction_value), called on its own
DetectAnomaly(transaction_value) ==
    /\ \E d \in detect_anomaly(monitor_data, monitor_fit) :
           last' = [op |-> "detect_anomaly", value |-> transaction_value,
                    answer |-> d, data_before |-> monitor_data,
                    fit_before |-> monitor_fit]
    /\ UNCHANGED txvars
    /\ UNCHANGED <<global_supply, monitor_data, monitor_fit, is_trained,
                   key_counter, coin, pc, local>>

\* ------------------------------------------------------------------ PiCoin
\* the check made against the deny-list instead of the allow-list
SourceAllowed_deny(source) == source \notin REJECTED_SOURCES

\* source in ALLOWED_SOURCES
SourceAllowed(source) == source \in ALLOWED_SOURCES

\* the amount reduced to 5% instead of by 5%
Mitigate_to5(amount_pi) == (amount_pi * 5) \div 100

\* self.amount_pi *= 0.95
Mitigate(amount_pi) == (amount_pi * 95) \div 100

EffectiveAmount(amount_pi, d) ==
    IF d = "anomaly" THEN Mitigate(amount_pi) ELSE amount_pi

\* the total compared without the amount about to be added
CapExceeded_stale(supply, amount_pi) == supply > TOTAL_SUPPLY

\* PiCoin._global_supply + self.amount_pi > TOTAL_SUPPLY
CapExceeded(supply, amount_pi) == supply + amount_pi > TOTAL_SUPPLY

\* the message built without the amount
CoinMessage_noamount(c) == c.coin_id \o "-" \o c.source

\* f"{self.coin_id}-{self.amount_pi}-{self.source}"
CoinMessage(c) == Fmt3(c.coin_id, StrNum(c.amount_pi), c.source)

\* pi_based_hash(f"{amount_pi}-{source}-{np.random.randint(1000000)}")
NewCoinId(amount_pi, source, r) ==
    pi_based_hash(Fmt3(StrNum(amount_pi), source, StrNum(r)))

\* PiCoin._sign_transaction
sign_transaction(c) == Sign(PROCESS_KEY, CoinMessage(c))

\* the object after a successful __init__; minted is what was signed
NewCoin(amount_pi, source, r, d) ==
    LET c == [coin_id |-> NewCoinId(amount_pi, source, r),
              amount_pi |-> EffectiveAmount(amount_pi, d),
              source |-> source]
    IN [coin_id |-> c.coin_id, amount_pi |-> c.amount_pi, source |-> c.source,
        signature |-> sign_transaction(c), minted |-> c]

\* what a PiCoin(amount_pi, source) call did: detect is the detector's answer
\* ("not called" when it was not consulted), checked the amount compared
\* against the cap, error the exception raised ("none": the coin is returned)
MintCall(amount_pi, source, d, checked, error) ==
    [op |-> "PiCoin", amount_pi |-> amount_pi, source |-> source,
     detect |-> d, checked |-> checked, error |-> error,
     signed |-> (error = "none"), supply_before |-> global_supply,
     data_before |-> monitor_data]

\* PiCoin.__init__(amount_pi, source), run without interruption
Mint(amount_pi, source, r) ==
    /\ UNCHANGED txvars
    /\ UNCHANGED <<monitor_data, monitor_fit, is_trained, key_counter, pc, local>>
    /\ IF ~SourceAllowed(source)
       THEN /\ last' = MintCall(amount_pi, source, "not called", "none", "ValueError")
            /\ UNCHANGED <<global_supply, coin>>
       ELSE \E d \in detect_anomaly(monitor_data, monitor_fit) :
            IF d = "NotFittedError"
            THEN /\ last' = MintCall(amount_pi, source, d, "none", "NotFittedError")
                 /\ UNCHANGED <<global_supply, coin>>
            ELSE LET eff == EffectiveAmount(amount_pi, d)
                 IN  IF CapExceeded(global_supply, eff)
                     THEN /\ last' = MintCall(amount_pi, source, d, eff, "OverflowError")
                          /\ UNCHANGED <<global_supply, coin>>
                     ELSE /\ global_supply + eff >= 0 - MaxDebt
                          /\ global_supply' = global_supply + eff
                          /\ coin' = NewCoin(amount_pi, source, r, d)
                          /\ last' = MintCall(amount_pi, source, d, eff, "none")

\* PiCoin.reset_supply
ResetSupply ==
    /\ global_supply' = 0
    /\ last' = [op |-> "reset_supply"]
    /\ UNCHANGED txvars
    /\ UNCHANGED <<monitor_data, monitor_fit, is_trained, key_counter, coin, pc, local>>

\* PiCoin.get_supply_status, called on the coin the caller holds
GetSupplyStatus ==
    /\ coin # NoCoin
    /\ last' = [op |-> "get_supply_status",
                current_supply |-> global_supply,
                remaining_supply |-> TOTAL_SUPPLY - global_supply,
                utilization_percent |-> (global_supply * 100) \div TOTAL_SUPPLY]
    /\ UNCHANGED txvars
    /\ UNCHANGED <<global_supply, monitor_data, monitor_fit, is_trained,
                   key_counter, coin, pc, local>>

\* PiCoin.verify_signature, on the object's current fields
verify_signature(c) == Verifies(PROCESS_KEY, c.signature, CoinMessage(c))

VerifySignature ==
    /\ coin # NoCoin
    /\ last' = [op |-> "verify_signature", result |-> verify_signature(coin)]
    /\ UNCHANGED txvars
    /\ UNCHANGED <<global_supply, monitor_data, monitor_fit, is_trained,
                   key_counter, coin, pc, local>>

\* coin.coin_id = v, coin.amount_pi = v, coin.source = v: the fields are
\* plain attributes, assignable after construction
SetField(field, v) ==
    /\ coin # NoCoin
    /\ coin[field] # v
    /\ coin' = [coin EXCEPT ![field] = v]
    /\ last' = [op |-> "setattr", field |-> field]
    /\ UNCHANGED txvars
    /\ UNCHANGED <<global_supply, monitor_data, monitor_fit, is_trained,
                   key_counter, pc, local>>

\* ------------------------------------------- PiCoin.__init__, step by step
\* Two threads construct coins.  __init__ holds no lock: between the
\* statements of lines 41 and 44, and between the read and the write of the
\* += of line 44, the other thread may run.
Threads == {1, 2}

IdleLocal == [amount_pi |-> 0, tmp |-> 0, accepted |-> 0, error |-> "none"]

\* lines 26-38: source check, attributes, anomaly mitigation
T_Call(t, amount_pi, source) ==
    /\ pc[t] = "idle"
    /\ IF ~SourceAllowed(source)
       THEN /\ pc' = [pc EXCEPT ![t] = "raised"]
            /\ local' = [local EXCEPT ![t].error = "ValueError"]
       ELSE \E d \in detect_anomaly(monitor_data, monitor_fit) :
            IF d = "NotFittedError"
            THEN /\ pc' = [pc EXCEPT ![t] = "raised"]
                 /\ local' = [local EXCEPT ![t].error = d]
            ELSE /\ pc' = [pc EXCEPT ![t] = "check"]
                 /\ local' = [local EXCEPT
                                ![t].amount_pi = EffectiveAmount(amount_pi, d)]
    /\ last' = [op |-> "thread", thread |-> t]
    /\ UNCHANGED txvars
    /\ UNCHANGED <<global_supply, monitor_data, monitor_fit, is_trained,
                   key_counter, coin>>

\* lines 41-42: the cap check reads the total
T_Check(t) ==
    /\ pc[t] = "check"
    /\ IF CapExceeded(global_supply, local[t].amount_pi)
       THEN /\ pc' = [pc EXCEPT ![t] = "raised"]
            /\ local' = [local EXCEPT ![t].error = "OverflowError"]
       ELSE /\ pc' = [pc EXCEPT ![t] = "load"]
            /\ UNCHANGED local
    /\ last' = [op |-> "thread", thread |-> t]
    /\ UNCHANGED txvars
    /\ UNCHANGED <<global_supply, monitor_data, monitor_fit, is_trained,
                   key_counter, coin>>

\* line 44, first half: += reads the total again
T_Load(t) ==
    /\ pc[t] = "load"
    /\ pc' = [pc EXCEPT ![t] = "store"]
    /\ local' = [local EXCEPT ![t].tmp = global_supply]
    /\ last' = [op |-> "thread", thread |-> t]
    /\ UNCHANGED txvars
    /\ UNCHANGED <<global_supply, monitor_data, monitor_fit, is_trained,
                   key_counter, coin>>

\* line 44, second half: += writes the sum back; line 47 signs and the
\* constructor returns the coin
T_Store(t) ==
    /\ pc[t] = "store"
    /\ global_supply' = local[t].tmp + local[t].amount_pi
    /\ pc' = [pc EXCEPT ![t] = "returned"]
    /\ local' = [local EXCEPT
                   ![t].accepted = local[t].accepted + local[t].amount_pi]
    /\ last' = [op |-> "thread", thread |-> t]
    /\ UNCHANGED txvars
    /\ UNCHANGED <<monitor_data, monitor_fit, is_trained, key_counter, coin>>

\* the caller has the coin or the exception, and may construct again
T_Done(t) ==
    /\ pc[t] \in {"returned", "raised"}
    /\ pc' = [pc EXCEPT ![t] = "idle"]
    /\ local' = [local EXCEPT ![t].error = "none", ![t].amount_pi = 0,
                              ![t].tmp = 0]
    /\ last' = [op |-> "thread", thread |-> t]
    /\ UNCHANGED txvars
    /\ UNCHANGED <<global_supply, monitor_data, monitor_fit, is_trained,
                   key_counter, coin>>


Init ==
    /\ global_supply = 0
    /\ monitor_data = 0
    /\ monitor_fit = 0
    /\ is_trained = FALSE
    /\ key_counter = 1
    /\ coin = NoCoin
    /\ pc = [t \in Threads |-> "idle"]
    /\ local = [t \in Threads |-> IdleLocal]
    /\ tx = [i \in TxIds |-> NoTx]
    /\ task = [i \in TxIds |-> IdleTask]
    /\ batch = NoBatch
    /\ last = [op |-> "import"]

\* ---------------------------------------------------------- SourceVerifier
\* SourceVerifier.train(data), len(data) = k
VerifierTrain(k) ==
    /\ is_trained' = IF k < MIN_TRAINING THEN is_trained ELSE TRUE
    /\ last' = [op |-> "verifier.train", k |-> k]
    /\ UNCHANGED txvars
    /\ UNCHANGED <<global_supply, monitor_data, monitor_fit, key_counter,
                   coin, pc, local>>

\* a classifier that asks its model whether trained or not
predict_validity_closed(trained) == {TRUE, FALSE}

\* SourceVerifier.predict_validity: what a call can return in this state
predict_validity(trained) == IF ~trained THEN {TRUE} ELSE {TRUE, FALSE}

\* verifier.predict_validity(features), called on its own
PredictValidity(features) ==
    /\ \E p \in predict_validity(is_trained) :
           last' = [op |-> "predict_validity", features |-> features,
                    result |-> p, trained_before |-> is_trained]
    /\ UNCHANGED txvars
    /\ UNCHANGED <<global_supply, monitor_data, monitor_fit, is_trained,
                   key_counter, coin, pc, local>>

\* ----------------------------------------------------------- verify_origin
NoStages == [stages |-> <<>>, stopped |-> FALSE]

\* a stage that does not return after rejecting
RunStage_goeson(run, stage, outcome) ==
    [stages |-> Append(run.stages, [stage |-> stage, outcome |-> outcome]),
     stopped |-> run.stopped \/ outcome # "pass"]

\* one stage of verify_origin, after the stages run so far: it is reached
\* only if none of them returned False or raised
RunStage(run, stage, outcome) ==
    IF run.stopped THEN run
    ELSE [stages |-> Append(run.stages, [stage |-> stage, outcome |-> outcome]),
          stopped |-> outcome # "pass"]

\* a gate that consults the deny-list only
allow_stage_denyonly(source) ==
    IF source \in REJECTED_SOURCES THEN "reject" ELSE "pass"

\* source not in ALLOWED_SOURCES or source in REJECTED_SOURCES
allow_stage(source) ==
    IF source \notin ALLOWED_SOURCES \/ source \in REJECTED_SOURCES
    THEN "reject" ELSE "pass"

\* not verifier.predict_validity(features), p the classifier's answer
classifier_stage(p) == IF ~p THEN "reject" ELSE "pass"

\* expected_hash != actual_hash; pi_based_hash(pi_coin_id) evaluates
\* data + pi_digits, which raises TypeError if the id is not a str
hash_stage(source, pi_coin_id, amount) ==
    IF pi_coin_id = TX_ID_OBJECT THEN "raise"
    ELSE IF pi_based_hash(Fmt3(source, pi_coin_id, StrNum(amount)))
                # pi_based_hash(pi_coin_id)
    THEN "reject" ELSE "pass"

\* monitor.detect_anomaly(amount), d the detector's answer
anomaly_stage(d) ==
    IF d = "NotFittedError" THEN "raise"
    ELSE IF d = "anomaly" THEN "reject" ELSE "pass"

\* the try block: evaluating padding.PSS(...) raises (verification.py does
\* not import padding, and PSS takes no Ellipsis), the bare except returns False
signature_stage(source, pi_coin_id) == "reject"

\* verify_origin(source, pi_coin_id, amount, freq): the stages run and their
\* outcomes; p and d are what the classifier and the detector answer if asked
verify_origin(source, pi_coin_id, amount, freq, p, d) ==
    RunStage(
     RunStage(
      RunStage(
       RunStage(
        RunStage(NoStages, "allow-list", allow_stage(source)),
        "classifier", classifier_stage(p)),
       "hash", hash_stage(source, pi_coin_id, amount)),
      "anomaly", anomaly_stage(d)),
     "signature", signature_stage(source, pi_coin_id))

Outcomes(run) == {run.stages[i].outcome : i \in 1..Len(run.stages)}

\* the exception that left verify_origin, if a stage raised
Raised(run) ==
    IF "raise" \notin Outcomes(run) THEN "none"
    ELSE IF run.stages[Len(run.stages)].stage = "hash" THEN "TypeError"
    ELSE "NotFittedError"

VerifyOrigin(source, pi_coin_id, amount, freq) ==
    /\ \E p \in predict_validity(is_trained),
          d \in detect_anomaly(monitor_data, monitor_fit) :
          LET run == verify_origin(source, pi_coin_id, amount, freq, p, d)
          IN last' = [op |-> "verify_origin", source |-> source,
                      id |-> pi_coin_id, amount |-> amount, freq |-> freq,
                      stages |-> run.stages,
                      error |-> Raised(run),
                      result |-> Outcomes(run) = {"pass"},
                      trained_before |-> is_trained,
                      data_before |-> monitor_data]
    /\ UNCHANGED txvars
    /\ UNCHANGED <<global_supply, monitor_data, monitor_fit, is_trained,
                   key_counter, coin, pc, local>>

\* ------------------------------------------------------------ batch_verify
\* coin.get(key, default)
Get(c, key, default) == IF key \in DOMAIN c THEN c[key] ELSE default

\* the (amount, freq) features and the amounts the coins of a batch can carry
BatchFeatures ==
    {<<Get(c, "amount", 1), Get(c, "freq", 1)>> : c \in BatchCoins}

\* verify_origin on one coin of a batch; pm and dm are what the classifier
\* and the detector answer, in the state of the call, for each input
verify_coin(c, pm, dm) ==
    verify_origin(c.source, c.id, Get(c, "amount", 1), Get(c, "freq", 1),
                  pm[<<Get(c, "amount", 1), Get(c, "freq", 1)>>],
                  dm[Get(c, "amount", 1)])

\* a loop body that keeps the latest result only
BatchAppend_overwrite(results, r) == <<r>>

\* results.append(...)
BatchAppend(results, r) == Append(results, r)

\* the for loop of batch_verify from coin i on: the list built, the stages
\* each call ran, and the exception that ended the loop if one was raised
RECURSIVE BatchLoop(_, _, _, _, _, _)
BatchLoop(coins, i, results, traces, pm, dm) ==
    IF i > Len(coins)
    THEN [results |-> results, traces |-> traces, error |-> "none"]
    ELSE LET run == verify_coin(coins[i], pm, dm)
         IN IF "raise" \in Outcomes(run)
            THEN [results |-> results, traces |-> Append(traces, run.stages),
                  error |-> Raised(run)]
            ELSE BatchLoop(coins, i + 1,
                           BatchAppend(results, Outcomes(run) = {"pass"}),
                           Append(traces, run.stages), pm, dm)

\* batch_verify(coins)
BatchVerify(coins) ==
    /\ \E pm \in [BatchFeatures -> predict_validity(is_trained)],
          dm \in [VerifyAmounts \cup {1} ->
                      detect_anomaly(monitor_data, monitor_fit)] :
          LET out == BatchLoop(coins, 1, <<>>, <<>>, pm, dm)
          IN last' = [op |-> "batch_verify", coins |-> coins,
                      results |-> out.results, traces |-> out.traces,
                      error |-> out.error, pm |-> pm, dm |-> dm,
                      trained_before |-> is_trained,
                      data_before |-> monitor_data]
    /\ UNCHANGED txvars
    /\ UNCHANGED <<global_supply, monitor_data, monitor_fit, is_trained,
                   key_counter, coin, pc, local>>

\* -------------------------------------------------------------- HashEngine
\* HashEngine.ai_select_hash: the decision tree fitted on [[10], [100],
\* [1000]] -> [0, 0, 1] splits at HASH_SPLIT
ai_select_hash(data) == IF Len(data) <= HASH_SPLIT THEN "SHA256" ELSE "SHA3_512"

\* HashEngine.compute_hash: the hex digest, or the exception raised
\* (bytes has no hexdigest)
compute_hash(data) ==
    IF ai_select_hash(data) = "SHA256"
    THEN [error |-> "none", hash |-> "sha256(" \o data \o PI_ENTROPY \o ")"]
    ELSE [error |-> "AttributeError", hash |-> ""]

\* HashEngine.quantum_sign_hash(data): signs with a keypair generated for
\* this call, which is not kept
QuantumSign(data) ==
    /\ IF compute_hash(data).error # "none"
       THEN /\ last' = [op |-> "quantum_sign_hash", data |-> data,
                        error |-> compute_hash(data).error]
            /\ UNCHANGED key_counter
       ELSE /\ key_counter < MaxKeys
            /\ key_counter' = key_counter + 1
            /\ last' = [op |-> "quantum_sign_hash", data |-> data,
                        error |-> "none",
                        signature |-> Sign(key_counter + 1, compute_hash(data).hash)]
    /\ UNCHANGED txvars
    /\ UNCHANGED <<global_supply, monitor_data, monitor_fit, is_trained,
                   coin, pc, local>>

\* HashEngine.verify_quantum_signature(data, signature, public_key) on the
\* signature just returned; the caller's public key is the process key or,
\* as in test_quantum_sign_verify, that of a keypair it generates
VerifyQuantum(data, fresh) ==
    /\ last.op = "quantum_sign_hash"
    /\ last.error = "none"
    /\ fresh => key_counter < MaxKeys
    /\ key_counter' = IF fresh THEN key_counter + 1 ELSE key_counter
    /\ LET public_key == IF fresh THEN key_counter + 1 ELSE PROCESS_KEY
       IN last' = [op |-> "verify_quantum_signature", data |-> data,
                   signed_data |-> last.data, public_key |-> public_key,
                   signing_key |-> last.signature.key,
                   error |-> compute_hash(data).error,
                   result |-> /\ compute_hash(data).error = "none"
                              /\ Verifies(public_key, last.signature,
                                          compute_hash(data).hash)]
    /\ UNCHANGED txvars
    /\ UNCHANGED <<global_supply, monitor_data, monitor_fit, is_trained,
                   coin, pc, local>>

\* ------------------------------------------------------------- Transaction
\* Transaction(sender, receiver, amount_pi, source)
TxNew(i, amount_pi, source) ==
    /\ tx[i] = NoTx
    /\ tx' = [tx EXCEPT ![i] = [amount_pi |-> amount_pi, source |-> source,
                                status |-> "pending",
                                consensus_votes |-> <<>>]]
    /\ last' = [op |-> "Transaction", tx |-> i]
    /\ UNCHANGED <<global_supply, monitor_data, monitor_fit, is_trained,
                   key_counter, coin, pc, local, task, batch>>

\* verify_origin(self.source, self.tx_id, self.amount_pi) as process() sees
\* it.  A source that stage 1 rejects is answered False.  For the other
\* sources three answers are followed: False (the classifier or a later stage
\* rejects), the TypeError that pi_based_hash raises on the Hash object
\* _generate_tx_id returns, and True.  verify_origin as written never answers
\* True (its hash stage rejects every id); the answer True is what the steps
\* of process() after the gate are written for, and is followed so that they
\* are reached.
gate_answers(source) ==
    IF allow_stage(source) = "reject" THEN {"False"}
    ELSE {"True", "False", "TypeError"}

\* (i % 2 == 0), asyncio.sleep returning None
validator_vote(i) == (i % 2 = 0)

\* sum(votes), True counting 1
RECURSIVE SumVotes(_)
SumVotes(votes) ==
    IF votes = <<>> THEN 0
    ELSE (IF Head(votes) THEN 1 ELSE 0) + SumVotes(Tail(votes))

\* a quorum that needs every vote
consensus_rule_unanimous(votes) == SumVotes(votes) >= 3

\* consensus = sum(votes) >= 2
consensus_rule(votes) == SumVotes(votes) >= 2

\* a loop over two validators
RoundOver_two(votes) == Len(votes) = 2

\* for i in range(3) has run out
RoundOver(votes) == Len(votes) = 3

\* the test written without its not
consensus_failed_inverted(consensus) == consensus

\* if not consensus
consensus_failed(consensus) == ~consensus

\* a gate whose answer is not looked at
gate_rejects_never(g) == FALSE

\* if not verify_origin(...)
gate_rejects(g) == g = "False"

\* a commit that does not wait for the submission
broadcast_confirmed_early(t) == t.pc \in {"vote", "broadcast"}

\* await simulate_blockchain_transaction(tx_data) has returned the hash
broadcast_confirmed(t) == t.pc = "broadcast"

\* a call that has returned or raised
Returned(t, ret) == [t EXCEPT !.pc = "idle", !.ret = ret]

\* process() from its call to its first await.  Step 1 sets failed and
\* returns False if the gate answers False; an exception of the gate leaves
\* process() with the status as it was.  Steps 2 and 3 change no state up to
\* the first asyncio.sleep of _simulate_consensus.
Process(i, g) ==
    /\ tx[i] # NoTx
    /\ task[i].pc = "idle"
    /\ g \in gate_answers(tx[i].source)
    /\ LET t == [IdleTask EXCEPT !.calls = task[i].calls + 1, !.gate = g,
                                 !.ret = "running"]
       IN IF gate_rejects(g)
          THEN /\ tx' = [tx EXCEPT ![i].status = "failed"]
               /\ task' = [task EXCEPT ![i] = Returned(t, "False")]
          ELSE IF g = "TypeError"
          THEN /\ task' = [task EXCEPT ![i] = Returned(t, "TypeError")]
               /\ UNCHANGED tx
          ELSE /\ task' = [task EXCEPT ![i] =
                              [t EXCEPT !.pc = "vote", !.idx = 0,
                                        !.started = {0}]]
               /\ UNCHANGED tx
    /\ last' = [op |-> "process", tx |-> i, step |-> "call"]
    /\ UNCHANGED <<global_supply, monitor_data, monitor_fit, is_trained,
                   key_counter, coin, pc, local, batch>>

\* the first process() call on a transaction
TxProcess(i, g) ==
    /\ task[i].calls = 0
    /\ Process(i, g)

\* process() called again on a transaction that has been processed
TxProcessAgain(i, g) ==
    /\ task[i].calls >= 1
    /\ task[i].calls < MaxCalls
    /\ Process(i, g)

\* process() from the end of one validator's delay to the next await.  The
\* vote is appended; while the loop runs the next delay begins.  After the
\* loop the decision is taken and the votes are stored on the transaction;
\* a rejected round sets failed and returns False.  Otherwise step 4 trains
\* the monitor on the amount and step 5 calls simulate_blockchain_transaction,
\* which raises ConnectionError out of process() if the node is not
\* connected and else waits for the submission.
TxVote(i, connected) ==
    /\ task[i].pc = "vote"
    /\ LET t == task[i]
           votes == Append(t.votes, validator_vote(t.idx))
       IN IF ~RoundOver(votes)
          THEN /\ task' = [task EXCEPT ![i] =
                              [t EXCEPT !.votes = votes, !.idx = t.idx + 1,
                                        !.started = t.started \cup {t.idx + 1}]]
               /\ UNCHANGED <<tx, monitor_data, monitor_fit>>
          ELSE LET consensus == consensus_rule(votes)
                   d == [t EXCEPT !.votes = votes, !.writes = t.writes + 1,
                                  !.decided = IF consensus THEN "accept"
                                              ELSE "reject"]
               IN IF consensus_failed(consensus)
                  THEN /\ tx' = [tx EXCEPT ![i].consensus_votes = votes,
                                           ![i].status = "failed"]
                       /\ task' = [task EXCEPT ![i] = Returned(d, "False")]
                       /\ UNCHANGED <<monitor_data, monitor_fit>>
                  ELSE /\ tx' = [tx EXCEPT ![i].consensus_votes = votes]
                       /\ monitor_data' = monitor_data + 1
                       /\ monitor_fit' = IF monitor_data + 1 > MIN_SAMPLES
                                         THEN monitor_data + 1
                                         ELSE monitor_fit
                       /\ LET b == [d EXCEPT !.observed = TRUE,
                                             !.submits = d.submits + 1,
                                             !.connected =
                                                 IF connected THEN "True"
                                                 ELSE "False"]
                          IN task' = [task EXCEPT ![i] =
                                 IF connected THEN [b EXCEPT !.pc = "broadcast"]
                                 ELSE Returned(b, "ConnectionError")]
    /\ last' = [op |-> "process", tx |-> i, step |-> "vote"]
    /\ UNCHANGED <<global_supply, is_trained, key_counter, coin, pc, local, batch>>

\* process() after simulate_blockchain_transaction has returned the hash:
\* the status is set to completed and True is returned
TxCommit(i) ==
    /\ broadcast_confirmed(task[i])
    /\ tx' = [tx EXCEPT ![i].status = "completed"]
    /\ task' = [task EXCEPT ![i] = Returned(task[i], "True")]
    /\ last' = [op |-> "process", tx |-> i, step |-> "commit"]
    /\ UNCHANGED <<global_supply, monitor_data, monitor_fit, is_trained,
                   key_counter, coin, pc, local, batch>>

\* ---------------------------------------------- process_batch_transactions
\* process_batch_transactions(transactions) up to its await: one process()
\* coroutine per transaction is handed to asyncio.gather, which runs them as
\* tasks (the steps TxProcess, TxVote and TxCommit of each)
BatchCall(txs) ==
    /\ batch = NoBatch
    /\ \A k \in 1..Len(txs) :
           /\ tx[txs[k]] # NoTx
           /\ task[txs[k]].calls = 0
    /\ batch' = [state |-> "running", txs |-> txs, results |-> <<>>,
                 error |-> "none"]
    /\ last' = [op |-> "process_batch_transactions", step |-> "call"]
    /\ UNCHANGED <<global_supply, monitor_data, monitor_fit, is_trained,
                   key_counter, coin, pc, local, tx, task>>

\* transaction i's process() task has ended with this exception or value
Ended(i, rets) ==
    /\ task[i].calls = 1
    /\ task[i].pc = "idle"
    /\ task[i].ret \in rets

\* asyncio.gather returns once every task has returned: the list of the tasks'
\* results in the order of the arguments
BatchReturn ==
    /\ batch.state = "running"
    /\ \A k \in 1..Len(batch.txs) : Ended(batch.txs[k], {"True", "False"})
    /\ batch' = [batch EXCEPT
                     !.state = "returned",
                     !.results = [k \in 1..Len(batch.txs) |->
                                      task[batch.txs[k]].ret = "True"]]
    /\ last' = [op |-> "process_batch_transactions", step |-> "return"]
    /\ UNCHANGED <<global_supply, monitor_data, monitor_fit, is_trained,
                   key_counter, coin, pc, local, tx, task>>

\* asyncio.gather (return_exceptions is left False) passes an exception a
\* task raised on to the awaiting caller, who gets no list; the other tasks
\* keep running, and the caller resumes after the task has raised
BatchRaise ==
    /\ batch.state = "running"
    /\ \E k \in 1..Len(batch.txs) :
           /\ Ended(batch.txs[k], {"TypeError", "ConnectionError"})
           /\ batch' = [batch EXCEPT !.state = "raised",
                                     !.error = task[batch.txs[k]].ret]
    /\ last' = [op |-> "process_batch_transactions", step |-> "raise"]
    /\ UNCHANGED <<global_supply, monitor_data, monitor_fit, is_trained,
                   key_counter, coin, pc, local, tx, task>>

\* the ledger: mints, resets and the monitor's training
NextMint ==
    \/ \E a \in Amounts, s \in Sources, r \in RandInts : Mint(a, s, r)
    \/ ResetSupply
    \/ GetSupplyStatus
    \/ \E k \in TrainSizes : MonitorTrain(k)

SpecMint == Init /\ [][NextMint]_vars

\* a coin, from its minting on: its fields are read, assigned and verified
NextCoin ==
    \/ \E a \in CoinAmounts, s \in Sources, r \in RandInts : Mint(a, s, r)
    \/ \E k \in TrainSizes : MonitorTrain(k)
    \/ VerifySignature
    \/ \E v \in OtherIds : SetField("coin_id", v)
    \/ \E v \in OtherAmounts : SetField("amount_pi", v)
    \/ \E v \in OtherSources : SetField("source", v)

SpecCoin == Init /\ [][NextCoin]_vars

\* concurrent constructions of coins
NextThreads ==
    \E t \in Threads :
        \/ \E a \in ThreadAmounts, s \in ThreadSources : T_Call(t, a, s)
        \/ T_Check(t)
        \/ T_Load(t)
        \/ T_Store(t)
        \/ T_Done(t)

SpecThreads == Init /\ [][NextThreads]_vars

\* the verification gate and the two models it consults
NextVerify ==
    \/ \E s \in Sources, i \in CoinIds, a \in VerifyAmounts, f \in Freqs :
           VerifyOrigin(s, i, a, f)
    \/ \E k \in VerifierSizes : VerifierTrain(k)
    \/ \E k \in TrainSizes : MonitorTrain(k)
    \/ \E coins \in Batches : BatchVerify(coins)

SpecVerify == Init /\ [][NextVerify]_vars

\* the hash engine's signing path
NextHash ==
    \/ \E data \in HashData : QuantumSign(data)
    \/ \E data \in HashData, fresh \in BOOLEAN : VerifyQuantum(data, fresh)

SpecHash == Init /\ [][NextHash]_vars

\* transactions, each processed once
NextTx ==
    \/ \E i \in TxIds, a \in TxAmounts, s \in TxSources : TxNew(i, a, s)
    \/ \E i \in TxIds, g \in GateAnswers : TxProcess(i, g)
    \/ \E i \in TxIds, c \in BOOLEAN : TxVote(i, c)
    \/ \E i \in TxIds : TxCommit(i)

SpecTx == Init /\ [][NextTx]_vars

\* transactions on which process() may be called again
NextTxAgain ==
    \/ \E i \in TxIds, a \in TxAmounts, s \in TxSources : TxNew(i, a, s)
    \/ \E i \in TxIds, g \in GateAnswers : TxProcess(i, g)
    \/ \E i \in TxIds, g \in GateAnswers : TxProcessAgain(i, g)
    \/ \E i \in TxIds, c \in BOOLEAN : TxVote(i, c)
    \/ \E i \in TxIds : TxCommit(i)

SpecTxAgain == Init /\ [][NextTxAgain]_vars

\* a batch of transactions processed by process_batch_transactions
NextBatch ==
    \/ \E i \in TxIds, a \in TxAmounts, s \in TxSources : TxNew(i, a, s)
    \/ \E txs \in TxBatches : BatchCall(txs)
    \/ \E i \in TxIds, g \in GateAnswers : TxProcess(i, g)
    \/ \E i \in TxIds, c \in BOOLEAN : TxVote(i, c)
    \/ \E i \in TxIds : TxCommit(i)
    \/ BatchReturn
    \/ BatchRaise

SpecBatch == Init /\ [][NextBatch]_vars

\* the two learned models: the monitor and the classifier, trained and asked
NextModels ==
    \/ \E k \in MonitorSizes : MonitorTrain(k)
    \/ \E v \in Amounts : DetectAnomaly(v)
    \/ \E k \in VerifierSizes : VerifierTrain(k)
    \/ \E f \in VerifyAmounts \X Freqs : PredictValidity(f)

SpecModels == Init /\ [][NextModels]_vars

\* ------------------------------------------------------------------ claims
TheAllowList == {"mining", "rewards", "p2p"}

\* 95% of the requested amount if the detector flagged it, else the amount
Expected(call) ==
    IF call.detect = "anomaly" THEN (call.amount_pi * 95) \div 100
    ELSE call.amount_pi

\* C1: after any sequence of mint attempts the total minted supply is at
\* most TOTAL_SUPPLY.
C1_SupplyCap == global_supply <= TOTAL_SUPPLY

\* a mint was rejected at the cap, with the total exactly on the cap
C1_Witness ==
    /\ last.op = "PiCoin"
    /\ last.error = "OverflowError"
    /\ global_supply = TOTAL_SUPPLY

\* the sum of the amounts of the coins the threads were given
AcceptedTotal == local[1].accepted + local[2].accepted

\* C2: concurrent mints check the cap and add to the total in one atomic
\* step, so that the total never exceeds TOTAL_SUPPLY and, once the calls
\* have returned, it is the sum of the accepted amounts (none is lost).
C2_AtomicMint ==
    /\ global_supply <= TOTAL_SUPPLY
    /\ (\A t \in Threads : pc[t] \in {"idle", "returned", "raised"}) =>
           (global_supply = AcceptedTotal)

\* C3: the total starts at 0 and no operation (a mint with any amount,
\* reset_supply) ever lowers it, so it is never negative.
C3_NeverLowered == [][global_supply' >= global_supply]_vars

\* C4: a mint with an allowed source is rejected with the cap-exceeded error
\* exactly when the total plus the effective amount is above TOTAL_SUPPLY; a
\* mint landing on the cap is accepted; a rejected mint leaves the total
\* unchanged.
C4_CapRejection ==
    (last.op = "PiCoin" /\ last.source \in TheAllowList) =>
        /\ (last.error = "OverflowError") <=>
               (last.supply_before + Expected(last) > TOTAL_SUPPLY)
        /\ (last.supply_before + Expected(last) = TOTAL_SUPPLY) =>
               (last.error = "none")
        /\ (last.error # "none") => (global_supply = last.supply_before)

\* C5: a mint whose source is not in the allow-list fails with the
\* invalid-source error, the total unchanged, the detector not consulted and
\* nothing signed.
C5_InvalidSource ==
    (last.op = "PiCoin" /\ last.source \notin TheAllowList) =>
        /\ last.error = "ValueError"
        /\ global_supply = last.supply_before
        /\ last.detect = "not called"
        /\ ~last.signed

\* a disallowed source was rejected in a state where the detector, had it been
\* consulted, would have been past its threshold
C5_Witness ==
    /\ last.op = "PiCoin"
    /\ last.source = "exchange"
    /\ last.error = "ValueError"
    /\ last.data_before >= MIN_SAMPLES
    /\ last.supply_before > 0

\* C6: the amount checked against the cap, added to the total, stored and
\* signed is 95% of the requested amount when the detector flags it, and the
\* requested amount when it does not.
C6_MitigatedAmount ==
    (last.op = "PiCoin" /\ last.detect \in {"normal", "anomaly"}) =>
        /\ last.checked = Expected(last)
        /\ (last.error = "none") =>
               /\ global_supply = last.supply_before + Expected(last)
               /\ coin.amount_pi = Expected(last)
               /\ coin.signature.message =
                      coin.coin_id \o "-" \o ToString(Expected(last))
                                   \o "-" \o coin.source

\* a flagged amount of 60 was minted as 57
C6_Witness ==
    /\ last.op = "PiCoin"
    /\ last.error = "none"
    /\ last.detect = "anomaly"
    /\ last.amount_pi = 60
    /\ coin.amount_pi = 57
    /\ global_supply = last.supply_before + 57

\* the number of fields of the coin that differ from what was minted
Changed(c) ==
    Cardinality({f \in {"coin_id", "amount_pi", "source"} : c[f] # c.minted[f]})

\* C7: verify_signature on a minted coin's own fields returns true, and
\* returns false once any one of coin_id, amount, source was changed.
C7_SignatureRoundTrip ==
    (last.op = "verify_signature") =>
        /\ (Changed(coin) = 0) => (last.result = TRUE)
        /\ (Changed(coin) = 1) => (last.result = FALSE)

\* a coin with exactly one field changed was verified and refused
C7_Witness ==
    /\ last.op = "verify_signature"
    /\ Changed(coin) = 1
    /\ last.result = FALSE

\* an untouched coin, minted at the mitigated amount, was verified
C7_WitnessIntact ==
    /\ last.op = "verify_signature"
    /\ Changed(coin) = 0
    /\ coin.amount_pi = 57
    /\ last.result = TRUE

\* C8: the signature quantum_sign_hash(data) returns is accepted by
\* verify_quantum_signature(data, signature, public_key) for the public key
\* the verifier holds, for every data.
C8_SignVerifyRoundTrip ==
    (last.op = "verify_quantum_signature" /\ last.data = last.signed_data) =>
        (last.result = TRUE)

StageOrder == <<"allow-list", "classifier", "hash", "anomaly", "signature">>

\* C9: verify_origin runs its stages in the order allow-list, classifier,
\* hash, anomaly, signature; each stage that passes is followed by the next,
\* and no stage runs after one that rejected; a call with a disallowed
\* source reaches neither the anomaly nor the signature stage.
C9_StageOrder ==
    (last.op = "verify_origin") =>
        /\ Len(last.stages) \in 1..5
        /\ \A i \in 1..Len(last.stages) :
              /\ last.stages[i].stage = StageOrder[i]
              /\ (last.stages[i].outcome # "pass") => (i = Len(last.stages))
              /\ (last.stages[i].outcome = "pass" /\ i < 5) =>
                     (i < Len(last.stages))
        /\ (last.source \notin TheAllowList) =>
              (\A i \in 1..Len(last.stages) :
                   last.stages[i].stage \notin {"anomaly", "signature"})

\* a disallowed source was rejected by the first stage, with the classifier
\* trained and the detector past its threshold
C9_Witness ==
    /\ last.op = "verify_origin"
    /\ last.source = "exchange"
    /\ last.trained_before
    /\ last.data_before >= MIN_SAMPLES
    /\ Len(last.stages) = 1
    /\ last.result = FALSE

\* the classifier rejected an allowed source and the hash stage did not run
C9_WitnessClassifier ==
    /\ last.op = "verify_origin"
    /\ last.source = "mining"
    /\ Len(last.stages) = 2
    /\ last.stages[2].outcome = "reject"

\* C10: verify_origin returns true for every allowed source, coin id, amount
\* and frequency while the classifier is untrained and the detector is below
\* its sample threshold.
C10_ValidSourceAccepted ==
    (/\ last.op = "verify_origin"
     /\ last.source \in TheAllowList
     /\ ~last.trained_before
     /\ last.data_before < MIN_SAMPLES) => (last.result = TRUE)

\* C11: for every source outside the allow-list or inside the deny-list,
\* verify_origin returns false, by the first stage and without raising,
\* whatever the coin id, amount, frequency, classifier state and detector
\* state.
C11_DisallowedSourceRejected ==
    (/\ last.op = "verify_origin"
     /\ \/ last.source \notin TheAllowList
        \/ last.source \in {"exchange", "unknown", "illicit"}) =>
        /\ last.result = FALSE
        /\ last.error = "none"
        /\ Len(last.stages) = 1
        /\ last.stages[1] = [stage |-> "allow-list", outcome |-> "reject"]

\* a source on neither list was rejected at exactly MIN_SAMPLES observations,
\* where the unfitted detector would raise if asked, with the classifier
\* trained
C11_Witness ==
    /\ last.op = "verify_origin"
    /\ last.source = "bank"
    /\ last.trained_before
    /\ last.data_before = MIN_SAMPLES
    /\ last.amount = 10
    /\ last.freq = 5
    /\ last.result = FALSE

\* what verify_origin returns for coin c taken alone, the classifier and the
\* detector answering as in the batch call
Alone(c, call) == verify_coin(c, call.pm, call.dm)

GatePassed(i) ==
    /\ task'[i].calls = task[i].calls + 1
    /\ task'[i].gate = "True"

Affirmative(votes) == Cardinality({k \in 1..Len(votes) : votes[k]})

EndedPastGate(i) ==
    /\ task[i].gate = "True"
    /\ task[i].pc = "idle"

C18_VotesConcurrent ==
    \A i \in TxIds : task[i].pc = "vote" => task[i].started = {0, 1, 2}

C21_BatchOutcomes ==
    batch.state \in {"returned", "raised"} =>
        /\ batch.state = "returned"
        /\ Len(batch.results) = Len(batch.txs)
        /\ \A k \in 1..Len(batch.txs) :
               batch.results[k] = (tx[batch.txs[k]].status = "completed")

\* C22: while the anomaly detector has recorded fewer than 100 observations,
\* detect_anomaly returns false (not anomalous) for every amount.
C22_FailOpenBelowThreshold ==
    (last.op = "detect_anomaly" /\ last.data_before < 100) =>
        last.answer = "normal"

\* the detector was asked with 99 observations recorded
C22_Witness ==
    /\ last.op = "detect_anomaly"
    /\ last.data_before = 99
    /\ last.value = 120
    /\ last.answer = "normal"

\* C23: in every state reachable by train calls, if the accumulated sample
\* holds at least 100 observations then the outlier model has been fitted on
\* exactly that sample, also at exactly 100 observations.
C23_FittedAtThreshold ==
    monitor_data >= 100 => monitor_fit = monitor_data

\* C25: predict_validity returns true for every feature tuple as long as no
\* train call with at least 10 labeled samples has occurred, and a train call
\* with fewer than 10 samples leaves the classifier untrained and unchanged.
C25_ClassifierFailOpen ==
    /\ ~is_trained
    /\ [][/\ (last'.op = "predict_validity" /\ ~is_trained)
                 => last'.result = TRUE
          /\ is_trained' # is_trained
                 => (last'.op = "verifier.train" /\ last'.k >= 10)
          /\ (last'.op = "verifier.train" /\ last'.k < 10)
                 => is_trained' = is_trained]_vars

\* the untrained classifier was asked after a train call with 4 samples
C25_Witness ==
    /\ last.op = "predict_validity"
    /\ last.features = <<10, 5>>
    /\ ~last.trained_before
    /\ last.result = TRUE

\* C24: verify_origin returns a boolean for every input and in every
\* classifier and detector state reachable by train and verify calls; a
\* failing stage is reported as false, never as an exception.
C24_NeverRaises ==
    (last.op = "verify_origin") => last.error = "none"

\* the effective amount of the mint a step accepts, 0 for any other step
AcceptedNow ==
    IF last'.op = "PiCoin" /\ last'.error = "none" THEN last'.checked ELSE 0

\* C26: get_supply_status reports current_supply + remaining_supply =
\* TOTAL_SUPPLY with current_supply the sum of the effective amounts of all
\* accepted mints (every step adds to the total what it accepts and nothing
\* else); after a single unmitigated mint on an empty ledger it reports that
\* mint's amount as current and TOTAL_SUPPLY less that amount as remaining.
C26_SupplyStatus ==
    [][/\ global_supply' = global_supply + AcceptedNow
       /\ last'.op = "get_supply_status" =>
              /\ last'.current_supply = global_supply'
              /\ last'.current_supply + last'.remaining_supply = TOTAL_SUPPLY
              /\ (/\ last.op = "PiCoin"
                  /\ last.error = "none"
                  /\ last.detect = "normal"
                  /\ last.supply_before = 0) =>
                     /\ last'.current_supply = last.amount_pi
                     /\ last'.remaining_supply = TOTAL_SUPPLY - last.amount_pi
      ]_vars

\* C27: a transaction whose status is completed has had, in this order, an
\* origin verification that returned true, a consensus round with at least 2
\* affirmative recorded votes, and a broadcast submission that returned its
\* confirmation; completed is never set before the broadcast is confirmed.
C27_CompletedHistory ==
    \A i \in TxIds :
        /\ task[i].decided # "none" => task[i].gate = "True"
        /\ task[i].connected # "none" => task[i].decided = "accept"
        /\ tx[i].status = "completed" =>
               /\ task[i].gate = "True"
               /\ task[i].decided = "accept"
               /\ Affirmative(tx[i].consensus_votes) >= 2
               /\ task[i].submits = 1
               /\ task[i].connected = "True"
               /\ task[i].pc = "idle"
               /\ task[i].ret = "True"

\* one transaction is completed while the other, past the gate and the
\* round, still waits for its submission in status pending
C27_Witness ==
    \E i, j \in TxIds :
        /\ tx[i].status = "completed"
        /\ task[i].connected = "True"
        /\ task[j].pc = "broadcast"
        /\ tx[j].status = "pending"

\* the step is a process() call on transaction i that the gate rejects
GateRejected(i) ==
    /\ task'[i].calls = task[i].calls + 1
    /\ task'[i].gate = "False"

\* C28: a transaction rejected by origin verification ends failed with no
\* other effect: its recorded votes stay empty, no consensus round is run,
\* the detector's sample and the supply total are unchanged and the
\* broadcast endpoint is never invoked.
C28_RejectionFrame ==
    /\ [](\A i \in TxIds :
              task[i].gate = "False" =>
                  /\ tx[i].status = "failed"
                  /\ tx[i].consensus_votes = <<>>
                  /\ task[i].pc = "idle"
                  /\ task[i].ret = "False"
                  /\ task[i].votes = <<>>
                  /\ task[i].started = {}
                  /\ task[i].decided = "none"
                  /\ ~task[i].observed
                  /\ task[i].submits = 0)
    /\ [][\A i \in TxIds :
              GateRejected(i) =>
                  /\ monitor_data' = monitor_data
                  /\ monitor_fit' = monitor_fit
                  /\ global_supply' = global_supply
                  /\ \A j \in TxIds \ {i} : tx'[j] = tx[j] /\ task'[j] = task[j]
         ]_vars

\* a transaction from an allowed source was rejected by the gate after the
\* other transaction's amount had been recorded by the detector
C28_Witness ==
    \E i, j \in TxIds :
        /\ task[i].gate = "False"
        /\ tx[i].source = "p2p"
        /\ tx[i].status = "failed"
        /\ task[j].observed
        /\ monitor_data = 1

=============================================================================
